---- MODULE Spec2Model ----
(***************************************************************************)
(* Invoice line-item extraction: the two command-line pipelines of the     *)
(* repository,                                                             *)
(*   document_extraction.py     (batch over data/*.pdf, whole-document     *)
(*                               TEXT mode or per-page IMAGE mode), and    *)
(*   total_price_extraction.py  (one PDF given on the command line, mode   *)
(*                               decided per page),                        *)
(* together with the reply normaliser (parse_json_response, the item loops *)
(* of extract_amounts_from_text/_image) and the numeric coercion           *)
(* (convert_to_number).                                                    *)
(*                                                                         *)
(* Python values are modelled as tagged records: a JSON reply is a JNull,  *)
(* JInt, JFloat, JStr, JList or JDict; a Python string is a sequence of    *)
(* one-character strings; a call that may raise returns [exc, val].        *)
(***************************************************************************)
EXTENDS Integers, Sequences, FiniteSets, TLC

(***************************************************************************)
(* Bounds of the model.                                                    *)
(***************************************************************************)
MaxPages == 3
MaxDocs == 2

(***************************************************************************)
(* Python / JSON values.                                                   *)
(***************************************************************************)
JNull == [t |-> "null"]
JInt(n) == [t |-> "int", n |-> n]
\* the decimal m / 10^d, kept without trailing zeros (binary rounding is not modelled)
JFloat(m, d) == [t |-> "float", m |-> m, d |-> d]
JBool(b) == [t |-> "bool", b |-> b]
JStr(s) == [t |-> "str", s |-> s]
JList(xs) == [t |-> "list", xs |-> xs]
JDict(f) == [t |-> "dict", f |-> f]

Ok(v) == [exc |-> "none", val |-> v]
Raise(e) == [exc |-> e, val |-> JNull]
Raised(r) == r.exc /= "none"
ListOrEmpty(r) == IF Raised(r) THEN <<>> ELSE r.val

\* dict.get(key, default)
Get(d, key, default) == IF key \in DOMAIN d.f THEN d.f[key] ELSE default

Pow10(k) == CASE k = 0 -> 1 [] k = 1 -> 10 [] k = 2 -> 100 [] k = 3 -> 1000
              [] k = 4 -> 10000 [] k = 5 -> 100000 [] k = 6 -> 1000000

RECURSIVE NormFloat(_, _)
NormFloat(m, d) == IF d > 0 /\ m % 10 = 0 THEN NormFloat(m \div 10, d - 1) ELSE JFloat(m, d)

Digits == <<"0", "1", "2", "3", "4", "5", "6", "7", "8", "9">>
IsDigit(c) == \E i \in 1..10 : Digits[i] = c
DigitVal(c) == (CHOOSE i \in 1..10 : Digits[i] = c) - 1
IsSpace(c) == c \in {" ", "\t", "\n", "\r"}

RECURSIVE Filter(_, _)
\* s without the characters of the set drop (a chain of str.replace(c, ""))
Filter(s, drop) ==
    IF s = <<>> THEN <<>>
    ELSE IF Head(s) \in drop THEN Filter(Tail(s), drop)
    ELSE <<Head(s)>> \o Filter(Tail(s), drop)

RECURSIVE LStrip(_)
LStrip(s) == IF s /= <<>> /\ IsSpace(Head(s)) THEN LStrip(Tail(s)) ELSE s
RECURSIVE RStrip(_)
RStrip(s) == IF s /= <<>> /\ IsSpace(s[Len(s)]) THEN RStrip(SubSeq(s, 1, Len(s) - 1)) ELSE s
\* str.strip()
Strip(s) == RStrip(LStrip(s))

Contains(s, c) == \E i \in 1..Len(s) : s[i] = c

\* a sign, if any, split off: [neg, rest]
SplitSign(s) ==
    IF s /= <<>> /\ Head(s) \in {"+", "-"}
    THEN [neg |-> Head(s) = "-", rest |-> Tail(s)]
    ELSE [neg |-> FALSE, rest |-> s]

\* Python's digit part: digits, single underscores allowed between digits
IsDigitPart(s) ==
    /\ s /= <<>>
    /\ IsDigit(s[1]) /\ IsDigit(s[Len(s)])
    /\ \A i \in 1..Len(s) : IsDigit(s[i]) \/ (s[i] = "_" /\ IsDigit(s[i - 1]) /\ IsDigit(s[i + 1]))

RECURSIVE DigitsValue(_, _)
\* the value of a digit part, read left to right from the accumulator acc
DigitsValue(s, acc) ==
    IF s = <<>> THEN acc
    ELSE IF Head(s) = "_" THEN DigitsValue(Tail(s), acc)
    ELSE DigitsValue(Tail(s), 10 * acc + DigitVal(Head(s)))

NumDigits(s) == Cardinality({i \in 1..Len(s) : IsDigit(s[i])})

Signed(neg, n) == IF neg THEN 0 - n ELSE n

IntOfSigned(p) ==
    IF IsDigitPart(p.rest) THEN Ok(JInt(Signed(p.neg, DigitsValue(p.rest, 0)))) ELSE Raise("ValueError")

\* int(s) for a str: surrounding whitespace, a sign, a digit part
PyInt(s) == IntOfSigned(SplitSign(Strip(s)))

FirstIndex(s, c) == CHOOSE i \in 1..Len(s) : s[i] = c /\ \A j \in 1..(i - 1) : s[j] /= c
IndexOf(s, c) == IF Contains(s, c) THEN FirstIndex(s, c) ELSE 0

LowerCase(c) ==
    CASE c = "I" -> "i" [] c = "N" -> "n" [] c = "F" -> "f" [] c = "T" -> "t"
      [] c = "Y" -> "y" [] c = "A" -> "a" [] OTHER -> c
Lower(s) == [i \in 1..Len(s) |-> LowerCase(s[i])]

\* the floats that are not decimals
JInf(neg) == [t |-> "float", special |-> IF neg THEN "-inf" ELSE "inf"]
JNan == [t |-> "float", special |-> "nan"]

\* the part of s before position i (all of s if i = 0), and the part after it
Before(s, i) == IF i = 0 THEN s ELSE SubSeq(s, 1, i - 1)
After(s, i) == IF i = 0 THEN <<>> ELSE SubSeq(s, i + 1, Len(s))

\* the decimal m / 10^d of the digits read, d possibly negative after an exponent
Decimal(neg, m, d) ==
    IF d >= 0 THEN NormFloat(Signed(neg, m), d) ELSE JFloat(Signed(neg, m) * Pow10(0 - d), 0)

\* ip "." fp "e" ex: integer part, fraction part, signed exponent (hasExp)
FloatOfParts(neg, ip, fp, hasExp, ex) ==
    IF /\ ip = <<>> \/ IsDigitPart(ip)
       /\ fp = <<>> \/ IsDigitPart(fp)
       /\ ip /= <<>> \/ fp /= <<>>
       /\ ~hasExp \/ IsDigitPart(ex.rest)
    THEN Ok(Decimal(neg, DigitsValue(fp, DigitsValue(ip, 0)),
                    NumDigits(fp) - (IF hasExp THEN Signed(ex.neg, DigitsValue(ex.rest, 0)) ELSE 0)))
    ELSE Raise("ValueError")

FloatOfMantissa(neg, mant, di, hasExp, ex) ==
    FloatOfParts(neg, Before(mant, di), After(mant, di), hasExp, ex)

FloatOfSplit(neg, mant, hasExp, expo) ==
    FloatOfMantissa(neg, mant, IndexOf(mant, "."), hasExp, SplitSign(expo))

FloatOfBody(neg, body, ei) ==
    FloatOfSplit(neg, Before(body, ei), ei /= 0, After(body, ei))

FloatOfWord(neg, body, word) ==
    IF word \in {<<"i", "n", "f">>, <<"i", "n", "f", "i", "n", "i", "t", "y">>} THEN Ok(JInf(neg))
    ELSE IF word = <<"n", "a", "n">> THEN Ok(JNan)
    ELSE FloatOfBody(neg, body, IF Contains(body, "e") THEN FirstIndex(body, "e") ELSE IndexOf(body, "E"))

FloatOfSigned(p) == FloatOfWord(p.neg, p.rest, Lower(p.rest))

\* float(s) for a str: sign, then inf / infinity / nan, or digits with an
\* optional point and an optional exponent
PyFloatOfStr(s) == FloatOfSigned(SplitSign(Strip(s)))

\* float(x) for any value x
PyFloat(x) ==
    CASE x.t = "float" -> Ok(x)
      [] x.t = "int" -> Ok(JFloat(x.n, 0))
      [] x.t = "bool" -> Ok(JFloat(IF x.b THEN 1 ELSE 0, 0))
      [] x.t = "str" -> PyFloatOfStr(x.s)
      [] OTHER -> Raise("TypeError")

\* "EUR" and "GBP" stand for the one-character strings of the euro and pound signs
CurrencyAndCommas == {",", "$", "EUR", "GBP"}

ZeroOnValueError(r) == IF r.exc = "ValueError" THEN JInt(0) ELSE r.val

\* a coercion that never tries float
NumberOfCleaned_AlwaysInt(cleaned) == ZeroOnValueError(PyInt(cleaned))

\* lines 257-261, for the cleaned string
NumberOfCleaned(cleaned) ==
    ZeroOnValueError(IF Contains(cleaned, ".") THEN PyFloatOfStr(cleaned) ELSE PyInt(cleaned))

convert_to_number(value) ==
    IF value.t \in {"int", "float", "bool"} THEN value
    ELSE IF value.t = "str" THEN NumberOfCleaned(Strip(Filter(value.s, CurrencyAndCommas)))
    ELSE JInt(0)

(***************************************************************************)
(* str(value), for the values a reply row can carry in a text field.       *)
(***************************************************************************)
RECURSIVE NatToStr(_)
NatToStr(n) == IF n < 10 THEN <<Digits[n + 1]>> ELSE NatToStr(n \div 10) \o <<Digits[(n % 10) + 1]>>
IntToStr(n) == IF n < 0 THEN <<"-">> \o NatToStr(0 - n) ELSE NatToStr(n)

RECURSIVE PadFrac(_, _)
\* the d fraction digits of a decimal, zero padded on the left
PadFrac(digs, d) == IF Len(digs) < d THEN PadFrac(<<"0">> \o digs, d) ELSE digs

DecimalToStr(neg, a, d) ==
    (IF neg THEN <<"-">> ELSE <<>>) \o NatToStr(a \div Pow10(d)) \o <<".">>
        \o (IF d = 0 THEN <<"0">> ELSE PadFrac(NatToStr(a % Pow10(d)), d))

FloatToStr(x) ==
    IF "special" \in DOMAIN x
    THEN CASE x.special = "inf" -> <<"i", "n", "f">>
           [] x.special = "-inf" -> <<"-", "i", "n", "f">>
           [] x.special = "nan" -> <<"n", "a", "n">>
    ELSE DecimalToStr(x.m < 0, IF x.m < 0 THEN 0 - x.m ELSE x.m, x.d)

PyStr(v) ==
    CASE v.t = "str" -> v.s
      [] v.t = "null" -> <<"N", "o", "n", "e">>
      [] v.t = "bool" -> IF v.b THEN <<"T", "r", "u", "e">> ELSE <<"F", "a", "l", "s", "e">>
      [] v.t = "int" -> IntToStr(v.n)
      [] v.t = "float" -> FloatToStr(v)
      [] v.t = "list" /\ v.xs = <<>> -> <<"[", "]">>
      [] v.t = "dict" /\ DOMAIN v.f = {} -> <<"{", "}">>

(***************************************************************************)
(* The reply of the inference collaborator: a payload that json.loads      *)
(* rejects (NotJson), or the JSON value the payload denotes.               *)
(***************************************************************************)
NotJson == [t |-> "garbage"]

json_loads(content) ==
    IF content.t = "garbage" THEN Raise("JSONDecodeError") ELSE Ok(content)

PdfName(i) == <<"d", Digits[i + 1]>>

(***************************************************************************)
(* document_extraction.parse_json_response                                 *)
(***************************************************************************)
ContainerKeys == <<"items", "data", "line_items", "records", "invoice_items", "lines">>

\* the positions of ContainerKeys whose key is bound to a list in result
ListKeys(result) ==
    {i \in 1..Len(ContainerKeys) :
        ContainerKeys[i] \in DOMAIN result.f /\ result.f[ContainerKeys[i]].t = "list"}

\* a search that keeps the last key that matches
Least_Greatest(S) == CHOOSE i \in S : \A j \in S : j <= i

Least(S) == CHOOSE i \in S : \A j \in S : i <= j

FirstListValue(result, hits) ==
    IF hits = {} THEN <<>> ELSE result.f[ContainerKeys[Least(hits)]].xs

\* lines 218-225: the row list of a parsed reply
RawItems(result) ==
    IF result.t = "list" THEN result.xs
    ELSE IF result.t = "dict" THEN FirstListValue(result, ListKeys(result))
    ELSE <<>>

\* the product of two coerced numbers, where both are integers
Product(q, u, otherwise) == IF q.t = "int" /\ u.t = "int" THEN JInt(q.n * u.n) ELSE otherwise

\* a normaliser that derives the total from quantity and unit price
FormatItem_MultipliesTotal(item, pdf_name, page_num) ==
    IF item.t /= "dict" THEN Raise("AttributeError")
    ELSE Ok(JDict(
        ("Description" :> JStr(PyStr(Get(item, "Description", Get(item, "description", JStr(<<>>))))))
     @@ ("Total_Price_Text" :>
            Product(convert_to_number(Get(item, "Quantity_Text", Get(item, "qty", Get(item, "quantity", JInt(0))))),
                    convert_to_number(Get(item, "Unit_Price_Label", Get(item, "unit_price", JInt(0)))),
                    convert_to_number(Get(item, "Total_Price_Text", Get(item, "total_price", JInt(0))))))
     @@ ("Quantity_Text" :> convert_to_number(Get(item, "Quantity_Text", Get(item, "qty", Get(item, "quantity", JInt(0))))))
     @@ ("Unit_Text" :> JStr(PyStr(Get(item, "Unit_Text", Get(item, "unit", JStr(<<>>))))))
     @@ ("Unit_Price_Label" :> convert_to_number(Get(item, "Unit_Price_Label", Get(item, "unit_price", JInt(0)))))
     @@ ("_confidence" :> JStr(<<"h", "i", "g", "h">>))
     @@ ("_flags" :> JList(<<>>))
     @@ ("_page" :> JInt(page_num))
     @@ ("_pdf" :> JStr(pdf_name))))

\* lines 230-240: one formatted item; item.get exists only on a mapping
FormatItem(item, pdf_name, page_num) ==
    IF item.t /= "dict" THEN Raise("AttributeError")
    ELSE Ok(JDict(
        ("Description" :> JStr(PyStr(Get(item, "Description", Get(item, "description", JStr(<<>>))))))
     @@ ("Total_Price_Text" :> convert_to_number(Get(item, "Total_Price_Text", Get(item, "total_price", JInt(0)))))
     @@ ("Quantity_Text" :> convert_to_number(Get(item, "Quantity_Text", Get(item, "qty", Get(item, "quantity", JInt(0))))))
     @@ ("Unit_Text" :> JStr(PyStr(Get(item, "Unit_Text", Get(item, "unit", JStr(<<>>))))))
     @@ ("Unit_Price_Label" :> convert_to_number(Get(item, "Unit_Price_Label", Get(item, "unit_price", JInt(0)))))
     @@ ("_confidence" :> JStr(<<"h", "i", "g", "h">>))
     @@ ("_flags" :> JList(<<>>))
     @@ ("_page" :> JInt(page_num))
     @@ ("_pdf" :> JStr(pdf_name))))

\* the results of a row loop: the first exception any row raised, else the rows
FirstFailure(rs) ==
    CHOOSE i \in 1..Len(rs) : rs[i].exc /= "none" /\ \A j \in 1..(i - 1) : rs[j].exc = "none"

Collect(rs) ==
    IF \E i \in 1..Len(rs) : rs[i].exc /= "none"
    THEN Raise(rs[FirstFailure(rs)].exc)
    ELSE Ok([i \in 1..Len(rs) |-> rs[i].val])

FormatItems(raw_items, pdf_name, page_num) ==
    Collect([i \in 1..Len(raw_items) |-> FormatItem(raw_items[i], pdf_name, page_num)])

ParseLoaded(parsed, pdf_name, page_num) ==
    IF parsed.exc = "JSONDecodeError" THEN Ok(<<>>)
    ELSE FormatItems(RawItems(parsed.val), pdf_name, page_num)

\* the reply is handed over as text; what json.loads rejects yields [] (lines 245-247),
\* any other exception of the row loop leaves the function
parse_json_response(content, pdf_name, page_num) ==
    ParseLoaded(json_loads(content), pdf_name, page_num)

(***************************************************************************)
(* total_price_extraction: the row loop shared by extract_amounts_from_text*)
(* (lines 168-200) and extract_amounts_from_image (lines 281-313).         *)
(***************************************************************************)
OrElse(r, default) == IF r.exc = "none" THEN r.val ELSE default

\* "amount": float(...), 0.0 on ValueError / TypeError
FixAmount(f) ==
    IF "amount" \in DOMAIN f
    THEN [f EXCEPT !["amount"] = OrElse(PyFloat(f["amount"]), JFloat(0, 0))]
    ELSE f

\* "Quantity", "Unit_price": float(...) unless absent or None, None on ValueError / TypeError
FixOptional(f, key) ==
    IF key \in DOMAIN f /\ f[key].t /= "null"
    THEN [f EXCEPT ![key] = OrElse(PyFloat(f[key]), JNull)]
    ELSE f

\* item[k] = v
SetKey(f, k, v) == (k :> v) @@ f

StampItem(item, page_number, pdf_name) ==
    IF item.t /= "dict" THEN Raise("TypeError")
    ELSE Ok(JDict(FixOptional(FixOptional(FixAmount(
            SetKey(SetKey(item.f, "_page", JInt(page_number)), "_pdf", JStr(pdf_name))),
            "Quantity"), "Unit_price")))

\* what iterating `items` yields: the elements of a list, the characters of a
\* str, the keys of a dict; anything else is not iterable
Iterate(items) ==
    CASE items.t = "list" -> Ok(items.xs)
      [] items.t = "str" -> Ok([i \in 1..Len(items.s) |-> JStr(<<items.s[i]>>)])
      [] items.t = "dict" /\ DOMAIN items.f = {} -> Ok(<<>>)
      \* the keys of a dict are str objects: one stands for them all
      [] items.t = "dict" /\ DOMAIN items.f /= {} -> Ok(<<JStr(<<"k">>)>>)
      [] OTHER -> Raise("TypeError")

StampItems(it, page_number, pdf_name) ==
    IF it.exc /= "none" THEN Raise(it.exc)
    ELSE Collect([i \in 1..Len(it.val) |-> StampItem(it.val[i], page_number, pdf_name)])

LoopLoaded(parsed, page_number, pdf_name) ==
    IF parsed.exc /= "none" THEN Raise(parsed.exc)
    ELSE IF parsed.val.t /= "dict" THEN Raise("AttributeError")
    ELSE StampItems(Iterate(Get(parsed.val, "items", JList(<<>>))), page_number, pdf_name)

\* lines 168-200: parse, parsed.get("items", []), stamp every item in place
AmountsItemLoop(content, page_number, pdf_name) ==
    LoopLoaded(json_loads(content), page_number, pdf_name)

(***************************************************************************)
(* Page text as the rendering collaborator returns it: a sequence of runs  *)
(* of whitespace / non-whitespace characters.                              *)
(***************************************************************************)
TextThreshold == 100

Run(ws, n) == [ws |-> ws, n |-> n]

RECURSIVE TextLen(_)
\* len(text)
TextLen(text) == IF text = <<>> THEN 0 ELSE Head(text).n + TextLen(Tail(text))

RECURSIVE LStripText(_)
LStripText(text) == IF text /= <<>> /\ Head(text).ws THEN LStripText(Tail(text)) ELSE text
RECURSIVE RStripText(_)
RStripText(text) ==
    IF text /= <<>> /\ text[Len(text)].ws THEN RStripText(SubSeq(text, 1, Len(text) - 1)) ELSE text
\* text.strip()
StripText(text) == RStripText(LStripText(text))

\* a + b, adjacent runs of the same kind joined
ConcatText(a, b) ==
    IF a = <<>> THEN b
    ELSE IF b = <<>> THEN a
    ELSE IF a[Len(a)].ws = Head(b).ws
    THEN SubSeq(a, 1, Len(a) - 1) \o <<Run(Head(b).ws, a[Len(a)].n + Head(b).n)>> \o Tail(b)
    ELSE a \o b

\* the page texts the model draws from: whitespace only (a scanned page), a
\* short line, and a text of 100 non-whitespace characters with whitespace inside
PageTexts ==
    { <<Run(TRUE, 2)>>,
      <<Run(FALSE, 60), Run(TRUE, 1)>>,
      <<Run(FALSE, 50), Run(TRUE, 10), Run(FALSE, 50), Run(TRUE, 1)>> }

RECURSIVE ConcatPages(_)
\* document_extraction.extract_text_from_pdf: text += page.get_text()
ConcatPages(texts) ==
    IF texts = <<>> THEN <<>> ELSE ConcatText(Head(texts), ConcatPages(Tail(texts)))

\* total_price_extraction.extract_text_from_pdf: one record per page
PagesData(texts) ==
    [i \in 1..Len(texts) |->
        [page_number |-> i,
         text |-> StripText(texts[i]),
         has_text |-> StripText(texts[i]) /= <<>>]]

\* document_extraction.main line 399
UseTextExtraction(text) == StripText(text) /= <<>> /\ TextLen(StripText(text)) > TextThreshold

(***************************************************************************)
(* The replies the inference collaborator gives in the runs of the two     *)
(* commands, each in the row schema its prompt asks for.                   *)
(***************************************************************************)
Chars(n) == <<"i", "t", "e", "m", Digits[n + 1]>>

DocRow(n) ==
    JDict(("Description" :> JStr(Chars(n))) @@ ("Total_Price_Text" :> JInt(10 * n))
       @@ ("Quantity_Text" :> JInt(n)) @@ ("Unit_Text" :> JStr(<<"K", "G">>))
       @@ ("Unit_Price_Label" :> JInt(10)))

AmountRow(n) ==
    JDict(("line_number" :> JInt(n)) @@ ("description" :> JStr(Chars(n)))
       @@ ("amount" :> JInt(10 * n)) @@ ("Quantity" :> JNull) @@ ("Unit_price" :> JInt(10)))

Items(rows) == JDict("items" :> JList(rows))

DocReplies ==
    { NotJson,
      Items(<<>>),
      Items(<<DocRow(1), DocRow(2)>>),
      Items(<<DocRow(1), JStr(<<"n", "/", "a">>)>>) }

AmountReplies ==
    { NotJson,
      Items(<<>>),
      Items(<<AmountRow(1), AmountRow(2)>>),
      Items(<<AmountRow(1), JStr(<<"n", "/", "a">>)>>) }

\* client.chat.completions.create: a reply, or an exception of the client
ApiError == [t |-> "raise"]
CallOutcomes(replies) == replies \cup {ApiError}

(***************************************************************************)
(* State.                                                                  *)
(***************************************************************************)
VARIABLES
    cmd,          \* what runs: the command "document_extraction", the command
                  \* "total_price_extraction", or a direct call of "extract_invoice_amounts"
    config_ok,    \* config/model_config.yaml can be read
    env_ok,       \* .env can be read and holds the key
    path,         \* total_price_extraction: the PDF path ("" none given, "missing",
                  \* "corrupt" a file that cannot be opened as a PDF, "present")
    pdf_files,    \* document_extraction: the number of PDFs data/*.pdf finds
    pc,           \* "start", "open" (next PDF of the batch), "page" (next page),
                  \* "call" (an inference call is in flight), "exit"
    doc,          \* index of the PDF being processed, 0 before the first
    num_pages,    \* page count of that PDF
    text,         \* document_extraction: the document-wide text
    pages_data,   \* total_price_extraction: the per-page records
    mode,         \* "text" or "image": the kind of the call in flight ("none" before)
    page,         \* the page of the loop, 0 outside the loops
    all_items,    \* the items gathered so far for this PDF
    failed_pages, \* the failed pages recorded so far for this PDF
    result,       \* the result object of this PDF once built (json_output / result)
    written,      \* indices of the PDFs whose result file has been written
    exit_code,    \* -1 while running, then the exit status of the process
    uncaught,     \* the exception that left main, "none" if none did
    calls,        \* history: the inference calls issued for this PDF, in order
    outcomes,     \* history: what each page attempt of this PDF ended as, in order
    arg,          \* a function called on its own: its arguments
    ret           \* and what it returned or raised

inputs == <<cmd, config_ok, env_ok, path, pdf_files>>
direct == <<arg, ret>>
vars == <<cmd, config_ok, env_ok, path, pdf_files, pc, doc, num_pages, text, pages_data,
          mode, page, all_items, failed_pages, result, written, exit_code, uncaught,
          calls, outcomes, arg, ret>>

NoResult == [status |-> "none"]
NotCalled == [t |-> "none"]

Init ==
    /\ cmd \in {"document_extraction", "total_price_extraction", "extract_invoice_amounts"}
    /\ config_ok \in BOOLEAN
    /\ env_ok \in BOOLEAN
    /\ IF cmd = "document_extraction"
       THEN path = "data" /\ pdf_files \in 0..MaxDocs
       ELSE /\ path \in {"missing", "corrupt", "present"} \cup (IF cmd = "total_price_extraction" THEN {""} ELSE {})
            /\ pdf_files = 1
    /\ pc = "start"
    /\ doc = 0
    /\ num_pages = 0
    /\ text = <<>>
    /\ pages_data = <<>>
    /\ mode = "none"
    /\ page = 0
    /\ all_items = <<>>
    /\ failed_pages = <<>>
    /\ result = NoResult
    /\ written = <<>>
    /\ exit_code = -1
    /\ uncaught = "none"
    /\ calls = <<>>
    /\ outcomes = <<>>
    /\ arg = NotCalled
    /\ ret = NotCalled

\* the sequences of n page texts
PageTextSeqs(n) == [1..n -> PageTexts]

\* a loop that puts the new page's items in front
Extend_Prepends(items, more) == more \o items

\* a loop that records a failed page in front of the earlier ones
AppendPage_InFront(failed, entry) == <<entry>> \o failed

\* list.extend / list.append
Extend(items, more) == items \o more
AppendPage(failed, entry) == Append(failed, entry)

\* the loop moves on to the page after p
NextPage(p) == p + 1

Call(p, kind, pages) == [page |-> p, kind |-> kind, pages |-> pages]
\* page p ended as `how`; reply is what the call returned, items what the page
\* extractor handed to the loop, flagged whether the loop was told of an error
Outcome(p, how, reply, items, flagged) ==
    [page |-> p, how |-> how, reply |-> reply, items |-> items, flagged |-> flagged]

(***************************************************************************)
(* document_extraction.main                                                *)
(***************************************************************************)
\* lines 412-417
DocOutput(items, failed, n) ==
    [status |-> IF items /= <<>> THEN "success" ELSE "no_data",
     items |-> items,
     num_pages |-> n,
     failed_pages |-> failed,
     error |-> "none"]

\* an exception leaves main: traceback, exit status 1
Crash(e) ==
    /\ pc' = "exit"
    /\ exit_code' = 1
    /\ uncaught' = e

\* lines 371-384: credentials, configuration, the PDFs of data/
MainStart ==
    /\ cmd = "document_extraction"
    /\ pc = "start"
    /\ IF ~env_ok \/ ~config_ok
       THEN Crash("FileNotFoundError") /\ doc' = doc
       ELSE IF pdf_files = 0
       THEN pc' = "exit" /\ exit_code' = 0 /\ doc' = doc /\ uncaught' = uncaught
       ELSE pc' = "open" /\ doc' = 1 /\ exit_code' = exit_code /\ uncaught' = uncaught
    /\ UNCHANGED <<inputs, direct, num_pages, text, pages_data, mode, page, all_items, failed_pages,
                   result, written, calls, outcomes>>

\* lines 393-407 for a PDF that opens: page count, text, mode, the first call
OpenReadable(n, doc_text) ==
    /\ num_pages' = n
    /\ text' = doc_text
    /\ pc' = "call"
    /\ IF UseTextExtraction(doc_text)
       THEN mode' = "text" /\ page' = 0 /\ calls' = <<Call(1, "text", 1..n)>>
       ELSE mode' = "image" /\ page' = 1 /\ calls' = <<Call(1, "image", {1})>>
    /\ UNCHANGED <<exit_code, uncaught>>

\* lines 387-407, up to the first inference call; fitz.open raises on a file
\* that is no PDF, and nothing in main catches it
OpenDocument ==
    /\ cmd = "document_extraction"
    /\ pc = "open"
    /\ \E readable \in BOOLEAN :
         IF ~readable
         THEN /\ Crash("FileDataError")
              /\ calls' = <<>>
              /\ UNCHANGED <<num_pages, text, mode, page>>
         ELSE \E n \in 1..MaxPages :
                \E texts \in PageTextSeqs(n) : OpenReadable(n, ConcatPages(texts))
    /\ all_items' = <<>>
    /\ failed_pages' = <<>>
    /\ result' = NoResult
    /\ outcomes' = <<>>
    /\ UNCHANGED <<inputs, direct, doc, pages_data, written>>

\* lines 409-423, then the next PDF of the batch or the end of main
SaveAndContinue(items, failed) ==
    /\ result' = DocOutput(items, failed, num_pages)
    /\ written' = Append(written, doc)
    /\ IF doc < pdf_files
       THEN pc' = "open" /\ doc' = doc + 1 /\ exit_code' = exit_code
       ELSE pc' = "exit" /\ doc' = doc /\ exit_code' = 0
    /\ uncaught' = uncaught

\* the create call (lines 112-126, 180-195) and the normaliser on its reply
CallAndParse(r, pdf_name, page_num) ==
    IF r = ApiError THEN Raise("APIError") ELSE parse_json_response(r, pdf_name, page_num)

\* how the attempt ended, for the history
How(r, exc) ==
    IF r = ApiError THEN "call_failed"
    ELSE IF exc /= "none" THEN "bad_row"
    ELSE IF r = NotJson THEN "bad_json"
    ELSE "ok"

TextReturns(r, parsed) ==
    /\ outcomes' = Append(outcomes, Outcome(1, How(r, parsed.exc), r, ListOrEmpty(parsed), Raised(parsed)))
    /\ IF parsed.exc /= "none"
       THEN /\ Crash(parsed.exc)
            /\ UNCHANGED <<doc, all_items, failed_pages, result, written>>
       ELSE /\ all_items' = parsed.val
            /\ failed_pages' = <<>>
            /\ SaveAndContinue(parsed.val, <<>>)

\* a TEXT mode that stamps the items with the last page of the document
TextReply_StampsLastPage ==
    /\ cmd = "document_extraction"
    /\ pc = "call"
    /\ mode = "text"
    /\ \E r \in CallOutcomes(DocReplies) : TextReturns(r, CallAndParse(r, PdfName(doc), num_pages))
    /\ UNCHANGED <<inputs, direct, num_pages, text, pages_data, mode, page, calls>>

\* extract_structured_data_from_text, lines 112-129: the one call of TEXT mode returns
TextReply ==
    /\ cmd = "document_extraction"
    /\ pc = "call"
    /\ mode = "text"
    /\ \E r \in CallOutcomes(DocReplies) : TextReturns(r, CallAndParse(r, PdfName(doc), 1))
    /\ UNCHANGED <<inputs, direct, num_pages, text, pages_data, mode, page, calls>>

\* lines 203-208 and the loop: the page's items or its failure is recorded,
\* then the next page's call is issued or the PDF's result is saved
ImageRecord(r, how, page_items, items, failed, caught) ==
    /\ all_items' = items
    /\ failed_pages' = failed
    /\ outcomes' = Append(outcomes, Outcome(page, how, r, page_items, caught))
    /\ IF page < num_pages
       THEN /\ page' = NextPage(page)
            /\ calls' = Append(calls, Call(page', "image", {page'}))
            /\ UNCHANGED <<pc, doc, result, written, exit_code, uncaught>>
       ELSE /\ SaveAndContinue(items, failed)
            /\ UNCHANGED <<page, calls>>

ImageReturns(r, parsed) ==
    IF parsed.exc = "none"
    THEN ImageRecord(r, How(r, "none"), parsed.val, Extend(all_items, parsed.val), failed_pages, FALSE)
    ELSE ImageRecord(r, How(r, parsed.exc), <<>>, all_items, AppendPage(failed_pages, page), TRUE)

\* extract_structured_data_from_images, lines 138-210: the call for the page returns
ImageReply ==
    /\ cmd = "document_extraction"
    /\ pc = "call"
    /\ mode = "image"
    /\ \E r \in CallOutcomes(DocReplies) : ImageReturns(r, CallAndParse(r, PdfName(doc), page))
    /\ UNCHANGED <<inputs, direct, num_pages, text, pages_data, mode>>

(***************************************************************************)
(* total_price_extraction.main and extract_invoice_amounts                 *)
(***************************************************************************)
\* lines 339-346 with the fields the run fills in
AmountsResult(status, n, items, failed, error) ==
    [status |-> status,
     num_pages |-> n,
     total_items |-> Len(items),
     items |-> items,
     failed_pages |-> failed,
     error |-> error]

\* a set-up that goes on without the configuration file
SetupFailure_IgnoresConfig(pdf_path) ==
    IF ~env_ok THEN "ValueError"
    ELSE IF pdf_path = "missing" THEN "FileNotFoundError"
    ELSE IF pdf_path = "corrupt" THEN "FileDataError"
    ELSE "none"

\* lines 348-359: what the set-up of extract_invoice_amounts raises, if anything
SetupFailure(pdf_path) ==
    IF ~config_ok THEN "FileNotFoundError"
    ELSE IF ~env_ok THEN "ValueError"
    ELSE IF pdf_path = "missing" THEN "FileNotFoundError"
    ELSE IF pdf_path = "corrupt" THEN "FileDataError"
    ELSE "none"

\* lines 400-405
ErrorText(e) == IF e = "FileNotFoundError" THEN "PDF file not found" ELSE e

\* line 407: the function returns its result; lines 425-438: main prints it,
\* saves it and ends
PrintAndSave(res) ==
    /\ result' = res
    /\ pc' = "exit"
    /\ IF cmd = "total_price_extraction"
       THEN written' = Append(written, 1) /\ exit_code' = 0
       ELSE UNCHANGED <<written, exit_code>>
    /\ uncaught' = uncaught

\* lines 348-359 and 400-405: the set-up fails with e, or the page loop begins
AmountsSetup(e, n, texts) ==
    IF e /= "none"
    THEN /\ PrintAndSave(AmountsResult("error", 0, <<>>, <<>>, ErrorText(e)))
         /\ UNCHANGED <<num_pages, pages_data, page>>
    ELSE /\ pages_data' = PagesData(texts)
         /\ num_pages' = n
         /\ page' = 1
         /\ pc' = "page"
         /\ UNCHANGED <<result, written, exit_code, uncaught>>

\* lines 412-425 and 336-359: arguments, then the set-up of extract_invoice_amounts
AmountsStart ==
    /\ cmd \in {"total_price_extraction", "extract_invoice_amounts"}
    /\ pc = "start"
    /\ IF cmd = "total_price_extraction" /\ path \in {"", "missing"}
       THEN /\ pc' = "exit"
            /\ exit_code' = 1
            /\ UNCHANGED <<doc, num_pages, pages_data, page, result, written, uncaught>>
       ELSE /\ doc' = 1
            /\ IF SetupFailure(path) /= "none"
               THEN AmountsSetup(SetupFailure(path), 0, <<>>)
               ELSE \E n \in 1..MaxPages :
                      \E texts \in PageTextSeqs(n) : AmountsSetup("none", n, texts)
    /\ UNCHANGED <<inputs, direct, text, mode, all_items, failed_pages, calls, outcomes>>

\* after page p: the next page, or lines 397-398 and the end of main
AmountsAdvance(items, failed) ==
    IF page < num_pages
    THEN /\ page' = NextPage(page)
         /\ pc' = "page"
         /\ UNCHANGED <<result, written, exit_code, uncaught>>
    ELSE /\ PrintAndSave(AmountsResult("success", num_pages, items, failed, "none"))
         /\ page' = page

\* lines 363-386, up to the inference call: the mode of the page, the rendering
AmountsPage ==
    /\ cmd \in {"total_price_extraction", "extract_invoice_amounts"}
    /\ pc = "page"
    /\ IF pages_data[page].has_text
       THEN /\ mode' = "text"
            /\ pc' = "call"
            /\ calls' = Append(calls, Call(page, "text", {page}))
            /\ UNCHANGED <<page, failed_pages, result, written, exit_code, uncaught, outcomes>>
       ELSE \E rendered \in BOOLEAN :
              IF rendered
              THEN /\ mode' = "image"
                   /\ pc' = "call"
                   /\ calls' = Append(calls, Call(page, "image", {page}))
                   /\ UNCHANGED <<page, failed_pages, result, written, exit_code, uncaught, outcomes>>
              ELSE /\ failed_pages' = AppendPage(failed_pages, [page |-> page, reason |-> "RuntimeError"])
                   /\ outcomes' = Append(outcomes, Outcome(page, "render_failed", JNull, <<>>, TRUE))
                   /\ AmountsAdvance(all_items, failed_pages')
                   /\ UNCHANGED <<mode, calls>>
    /\ UNCHANGED <<inputs, direct, doc, num_pages, text, pages_data, all_items>>

CallAndLoop(r, page_number, pdf_name) ==
    IF r = ApiError THEN Raise("APIError") ELSE AmountsItemLoop(r, page_number, pdf_name)

\* lines 202-207, 315-320: every exception is printed and [] returned
EmptyOnError(looped) == IF looped.exc /= "none" THEN <<>> ELSE looped.val

\* extract_amounts_from_text / extract_amounts_from_image: what the page
\* extractor returns for the outcome r of its inference call (lines 151-207, 255-320)
ExtractAmounts(r, page_number, pdf_name) == EmptyOnError(CallAndLoop(r, page_number, pdf_name))

\* the page extractor returns a bare list: the loop learns of no error
AmountsRecord(r, how, page_items, items) ==
    /\ all_items' = items
    /\ outcomes' = Append(outcomes, Outcome(page, how, r, page_items, FALSE))
    /\ AmountsAdvance(items, failed_pages)

AmountsReturns(r, looped) ==
    AmountsRecord(r, IF r = NotJson THEN "bad_json" ELSE How(r, looped.exc),
                  EmptyOnError(looped), Extend(all_items, EmptyOnError(looped)))

\* lines 370-394: the call for the page returns
AmountsReply ==
    /\ cmd \in {"total_price_extraction", "extract_invoice_amounts"}
    /\ pc = "call"
    /\ \E r \in CallOutcomes(AmountReplies) : AmountsReturns(r, CallAndLoop(r, page, PdfName(doc)))
    /\ UNCHANGED <<inputs, direct, doc, num_pages, text, pages_data, mode, failed_pages, calls>>

Next ==
    \/ MainStart
    \/ OpenDocument
    \/ TextReply
    \/ ImageReply
    \/ AmountsStart
    \/ AmountsPage
    \/ AmountsReply

Spec == Init /\ [][Next]_vars

(***************************************************************************)
(* The normaliser and the numeric coercion called on their own: the        *)
(* arguments are drawn in the initial state, one step applies the function.*)
(***************************************************************************)
MaxChars == 3

Alphabet == {"0", "1", ".", ",", "$", " ", "a", "-"}

\* the str values of at most n characters of the alphabet
Strings(n) == UNION {[1..k -> Alphabet] : k \in 0..n}

NamedStrings ==
    { <<"$", "1", ",", "2", "3", "4", ".", "5", "0">>,
      <<"2", ",", "0", "0", "0">>,
      <<"a", "b", "c">>,
      <<"1", ".", "2", ".", "3">>,
      <<"EUR", " ", "1", "2", " ">>,
      <<"GBP", "7", ".", "2", "5">>,
      <<"1", "e", "3">>,
      <<"1", ".", "5", "e", "2">> }

\* the values convert_to_number is given: text, numbers, and the other shapes
\* a JSON row can carry
NumberInputs ==
    {JStr(str) : str \in Strings(MaxChars) \cup NamedStrings}
    \cup {JInt(7), JInt(-3), JInt(0), JFloat(125, 1), JBool(TRUE), JNull,
          JList(<<>>), JList(<<JInt(1)>>), JDict(<<>>)}

\* a mapping bound, for each position of ContainerKeys, to a list, to
\* something that is no list, or not at all
ContainerShapes == [1..Len(ContainerKeys) -> {"absent", "list", "other"}]

KeyIndex(k) == CHOOSE i \in 1..Len(ContainerKeys) : ContainerKeys[i] = k

ContainerDict(shape) ==
    JDict([k \in {ContainerKeys[i] : i \in {j \in 1..Len(ContainerKeys) : shape[j] /= "absent"}} |->
             IF shape[KeyIndex(k)] = "list" THEN JList(<<DocRow(KeyIndex(k))>>) ELSE JStr(<<"x">>)])

\* rows in the schema of document_extraction's prompt, with the alternate spellings
TotalFields ==
    { <<>>,
      "Total_Price_Text" :> JInt(30),
      "Total_Price_Text" :> JStr(<<"$", "1", ",", "2", "3", "4", ".", "5", "0">>),
      "Total_Price_Text" :> JNull,
      "total_price" :> JInt(45),
      ("Total_Price_Text" :> JInt(30)) @@ ("total_price" :> JInt(45)) }
QuantityFields == { <<>>, "Quantity_Text" :> JInt(2), "quantity" :> JInt(3) }
UnitPriceFields == { <<>>, "Unit_Price_Label" :> JInt(10), "unit_price" :> JInt(7) }

DocRows == {JDict(t @@ q @@ u) : t \in TotalFields, q \in QuantityFields, u \in UnitPriceFields}

\* rows in the schema of total_price_extraction's prompt
AmountFields ==
    { <<>>,
      "amount" :> JInt(30),
      "amount" :> JStr(<<"1", "2", ".", "5", "0">>),
      "amount" :> JStr(<<"a", "b", "c">>),
      "amount" :> JNull,
      "amount" :> JList(<<>>) }
AmountQuantityFields == { <<>>, "Quantity" :> JInt(2), "Quantity" :> JNull }
AmountUnitPriceFields == { <<>>, "Unit_price" :> JInt(10), "Unit_price" :> JStr(<<"x">>) }

AmountRows ==
    {JDict(t @@ q @@ u) : t \in AmountFields, q \in AmountQuantityFields, u \in AmountUnitPriceFields}

\* elements of a row list that are no mapping
NotRows == {JStr(<<"n", "/", "a">>), JNull, JInt(4)}

\* the row lists of at most two elements
RowLists(rows) == UNION {[1..k -> rows \cup NotRows] : k \in 0..2}

Scalars == {JInt(5), JStr(<<"x">>), JNull, JBool(TRUE), JFloat(15, 1)}

\* the payloads parse_json_response is given
ParseContents ==
    {NotJson}
    \cup Scalars
    \cup {JList(<<>>), JList(<<DocRow(1), DocRow(2)>>), JDict(<<>>), JDict("rows" :> JList(<<DocRow(1)>>))}
    \cup {ContainerDict(shape) : shape \in ContainerShapes}
    \cup {Items(rows) : rows \in RowLists(DocRows)}

\* the payloads the item loop of extract_amounts_from_text/_image is given
AmountContents ==
    {NotJson}
    \cup Scalars
    \cup {JList(<<AmountRow(1)>>), JDict(<<>>), JDict("data" :> JList(<<AmountRow(1)>>)),
          JDict("items" :> JNull), JDict("items" :> JStr(<<>>)), JDict("items" :> JStr(<<"x">>)),
          JDict("items" :> JDict(<<>>))}
    \cup {Items(rows) : rows \in RowLists(AmountRows)}

FunctionArgs(f) ==
    CASE f = "convert_to_number" -> {[value |-> v] : v \in NumberInputs}
      [] f = "parse_json_response" ->
            {[content |-> c, pdf_name |-> PdfName(d), page_num |-> p] :
                c \in ParseContents, d \in 1..MaxDocs, p \in 1..MaxPages}
      [] f = "extract_amounts_from_text" ->
            {[content |-> c, page_number |-> p, pdf_name |-> PdfName(d)] :
                c \in AmountContents, d \in 1..MaxDocs, p \in 1..MaxPages}

InitFunctions ==
    /\ cmd \in {"convert_to_number", "parse_json_response", "extract_amounts_from_text"}
    /\ arg \in FunctionArgs(cmd)
    /\ ret = NotCalled
    /\ pc = "start"
    /\ config_ok = TRUE
    /\ env_ok = TRUE
    /\ path = ""
    /\ pdf_files = 0
    /\ doc = 0
    /\ num_pages = 0
    /\ text = <<>>
    /\ pages_data = <<>>
    /\ mode = "none"
    /\ page = 0
    /\ all_items = <<>>
    /\ failed_pages = <<>>
    /\ result = NoResult
    /\ written = <<>>
    /\ exit_code = -1
    /\ uncaught = "none"
    /\ calls = <<>>
    /\ outcomes = <<>>

Returns(r) ==
    /\ ret' = r
    /\ pc' = "exit"
    /\ UNCHANGED <<inputs, arg, doc, num_pages, text, pages_data, mode, page, all_items,
                   failed_pages, result, written, exit_code, uncaught, calls, outcomes>>

ConvertToNumber ==
    /\ cmd = "convert_to_number"
    /\ pc = "start"
    /\ Returns(Ok(convert_to_number(arg.value)))

ParseJsonResponse ==
    /\ cmd = "parse_json_response"
    /\ pc = "start"
    /\ Returns(parse_json_response(arg.content, arg.pdf_name, arg.page_num))

\* lines 168-207 of extract_amounts_from_text (281-320 of extract_amounts_from_image)
\* on the text of a reply
ExtractAmountsItems ==
    /\ cmd = "extract_amounts_from_text"
    /\ pc = "start"
    /\ Returns(Ok(ExtractAmounts(arg.content, arg.page_number, arg.pdf_name)))

NextFunctions ==
    \/ ConvertToNumber
    \/ ParseJsonResponse
    \/ ExtractAmountsItems

SpecFunctions == InitFunctions /\ [][NextFunctions]_vars

(***************************************************************************)
(* Properties.                                                             *)
(***************************************************************************)
\* a result of a PDF that met no document-level failure has been built
ResultBuilt == result.status \in {"success", "no_data"}

\* the page numbers of failed_pages (total_price_extraction keeps {page, reason})
FailedNumbers(failed) ==
    [i \in 1..Len(failed) |-> IF cmd = "document_extraction" THEN failed[i] ELSE failed[i].page]

InFailed(p, failed) == \E i \in 1..Len(failed) : FailedNumbers(failed)[i] = p

RECURSIVE ConcatItems(_)
ConcatItems(os) == IF os = <<>> THEN <<>> ELSE Head(os).items \o ConcatItems(Tail(os))

\* how often page p was attempted: the calls that carry it, and its failed renderings
AttemptCount(p) ==
    Cardinality({i \in DOMAIN calls : p \in calls[i].pages})
    + Cardinality({i \in DOMAIN outcomes : outcomes[i].page = p /\ outcomes[i].how = "render_failed"})

\* a page-level failure left main as an exception
PageFailureEscaped == uncaught \in {"APIError", "AttributeError"}

\* the call of the outcome o returned a payload that parses as JSON
ParsedReply(o) == o.how \in {"ok", "bad_row"}

\* the rows of the replies the model draws from
RowsOf(reply) == reply.f["items"].xs

\* the name a raw row or a produced item carries
NameOf(row) == Get(row, "Description", Get(row, "description", JStr(<<>>))).s

\* extract_invoice_amounts is entered with the path
ReachedFunction ==
    \/ cmd = "extract_invoice_amounts"
    \/ cmd = "total_price_extraction" /\ path \in {"corrupt", "present"}

\* the PDF, the configuration or the credential is unavailable
DocumentLevelFailure == ~config_ok \/ ~env_ok \/ path \in {"missing", "corrupt"}

\* C1: whatever pages fail, every page of the document is attempted exactly
\* once, and a page's failure is caught: it never leaves the orchestrator (image
\* loop, TEXT path of document_extraction.main, page loop of extract_invoice_amounts).
C1_EveryPageAttemptedOnce ==
    /\ ~PageFailureEscaped
    /\ ResultBuilt => \A p \in 1..num_pages : AttemptCount(p) = 1

\* C2: failed_pages holds every page whose inference call failed and no page
\* that succeeded, items is the concatenation of the items of the pages whose
\* call succeeded, and the status is SUCCESS when items is non-empty (3 pages,
\* page 2 failing: failed_pages = [2]).
C2_FailedPagesAreFailedCalls ==
    ResultBuilt =>
        /\ \A i \in DOMAIN outcomes :
               /\ outcomes[i].how = "call_failed" => InFailed(outcomes[i].page, result.failed_pages)
               /\ outcomes[i].how = "ok" => ~InFailed(outcomes[i].page, result.failed_pages)
        /\ Len(result.failed_pages) <= Len(outcomes)
        /\ result.items = ConcatItems(SelectSeq(outcomes, LAMBDA o : o.how /= "call_failed"))
        /\ result.items /= <<>> => result.status = "success"

\* C3: in every result, SUCCESS iff items is non-empty, NO_DATA iff no items
\* and no failed pages (and no document-level failure), ERROR iff a
\* document-level failure occurred.
C3_StatusMatchesContent ==
    result.status /= "none" =>
        /\ (result.status = "success") <=> (result.items /= <<>>)
        /\ (result.status = "no_data") <=>
               (result.items = <<>> /\ result.failed_pages = <<>> /\ ~DocumentLevelFailure)
        /\ (result.status = "error") <=> DocumentLevelFailure

\* C4: a document-level failure makes extract_invoice_amounts return one
\* result with status ERROR and a reason, without raising and without any page
\* attempt: no inference call, no items, no failed pages.
C4_DocumentFailureShortCircuits ==
    (ReachedFunction /\ DocumentLevelFailure /\ pc /= "start") =>
        /\ pc = "exit"
        /\ uncaught = "none"
        /\ result.status = "error"
        /\ result.error /= "none"
        /\ result.items = <<>>
        /\ result.failed_pages = <<>>
        /\ calls = <<>>
        /\ outcomes = <<>>
        /\ Len(written) <= 1

C4_Witness ==
    /\ ReachedFunction
    /\ pc = "exit"
    /\ ~config_ok
    /\ path = "present"
    /\ result.status = "error"

\* C5: a failed inference call and a reply that is not JSON both give a page
\* outcome with an error signalled to the caller and no items, and no
\* exception leaves the page extractor, on the text path as on the image path.
C5_PageErrorsAreSignalled ==
    /\ uncaught /= "APIError"
    /\ \A i \in DOMAIN outcomes :
           outcomes[i].how \in {"call_failed", "bad_json"} =>
               outcomes[i].flagged /\ outcomes[i].items = <<>>

\* C6: every page error, a failed call or an unparseable reply, puts the
\* page's number into failed_pages.
C6_PageErrorsAreRecorded ==
    \A i \in DOMAIN outcomes :
        outcomes[i].how \in {"call_failed", "bad_json"} => InFailed(outcomes[i].page, failed_pages)

\* C7: for a reply that parses as JSON the normaliser raises nothing, whatever
\* its rows are: it gives one item per row, and the page is not marked failed.
C7_RowContentNeverFails ==
    /\ uncaught /= "AttributeError"
    /\ \A i \in DOMAIN outcomes :
           ParsedReply(outcomes[i]) =>
               /\ Len(outcomes[i].items) = Len(RowsOf(outcomes[i].reply))
               /\ ~InFailed(outcomes[i].page, failed_pages)

\* C8: in a batch, a PDF that cannot be opened is fatal for that PDF only:
\* it gets status ERROR with a reason, and every PDF of the batch has its
\* result written when the run ends.
C8_DocumentErrorIsLocal ==
    /\ uncaught /= "FileDataError"
    /\ (cmd = "document_extraction" /\ pc = "exit" /\ uncaught \in {"none", "FileDataError"}
            /\ env_ok /\ config_ok)
        => written = [i \in 1..pdf_files |-> i]

\* C9: the command ends with a non-zero status exactly when the input file is
\* missing or the configuration or credential is absent, and with zero otherwise.
C9_ExitStatus ==
    (pc = "exit" /\ cmd \in {"document_extraction", "total_price_extraction"}) =>
        ((exit_code /= 0) <=>
            \/ ~config_ok
            \/ ~env_ok
            \/ cmd = "total_price_extraction" /\ path \in {"", "missing"})

\* C10: pages are processed strictly one after the other: a call is issued
\* only when every earlier page has its outcome recorded, at most one call is
\* in flight, and the items gathered are the pages' items in page order, each
\* page's items in the order of the rows of its reply.
C10_SequentialInPageOrder ==
    /\ \A i, j \in DOMAIN outcomes : i < j => outcomes[i].page < outcomes[j].page
    /\ \A i, j \in DOMAIN calls : i < j => calls[i].page < calls[j].page
    /\ pc = "call" =>
           /\ calls /= <<>>
           /\ mode /= "text" \/ cmd /= "document_extraction"
                  => {outcomes[i].page : i \in DOMAIN outcomes} = 1..(calls[Len(calls)].page - 1)
           /\ Cardinality({i \in DOMAIN outcomes : outcomes[i].how /= "render_failed"}) = Len(calls) - 1
    /\ pc /= "call" =>
           Cardinality({i \in DOMAIN outcomes : outcomes[i].how /= "render_failed"}) = Len(calls)
    /\ ~PageFailureEscaped => all_items = ConcatItems(outcomes)
    /\ ResultBuilt => result.items = ConcatItems(outcomes)
    /\ \A i \in DOMAIN outcomes :
           outcomes[i].how = "ok" /\ outcomes[i].reply /= NotJson =>
               /\ Len(outcomes[i].items) = Len(RowsOf(outcomes[i].reply))
               /\ \A k \in 1..Len(outcomes[i].items) :
                      NameOf(outcomes[i].items[k]) = NameOf(RowsOf(outcomes[i].reply)[k])

C10_Witness ==
    /\ ResultBuilt
    /\ num_pages = 3
    /\ Len(outcomes) = 3
    /\ outcomes[1].how = "ok" /\ Len(outcomes[1].items) = 2
    /\ outcomes[2].how = "call_failed"
    /\ outcomes[3].how = "ok" /\ Len(outcomes[3].items) = 2
    /\ Len(result.items) = 4

\* the number of non-whitespace characters of a text
RECURSIVE NonWhitespaceCount(_)
NonWhitespaceCount(t) ==
    IF t = <<>> THEN 0
    ELSE (IF Head(t).ws THEN 0 ELSE Head(t).n) + NonWhitespaceCount(Tail(t))

\* the document-wide text of the PDF that total_price_extraction reads page by page
RECURSIVE AllPagesText(_)
AllPagesText(pd) == IF pd = <<>> THEN <<>> ELSE ConcatText(Head(pd).text, AllPagesText(Tail(pd)))

\* C11: a document is processed in TEXT mode (one whole-document text call,
\* no rendering) exactly when its document-wide text has more than 100
\* non-whitespace characters, and in IMAGE mode (every page a rendered image)
\* otherwise; document_extraction.main and extract_invoice_amounts decide alike.
C11_ModeDecision ==
    /\ (cmd = "document_extraction" /\ pc = "call") =>
           ((mode = "text") <=> (NonWhitespaceCount(text) > TextThreshold))
    /\ (cmd /= "document_extraction" /\ pc = "call") =>
           ((mode = "text") <=> (NonWhitespaceCount(AllPagesText(pages_data)) > TextThreshold))

(***************************************************************************)
(* The rules the normaliser and the coercion are to follow, stated on      *)
(* their own for the properties below.                                     *)
(***************************************************************************)
\* s without its leading and trailing whitespace
RefTrimTo(s, keep) ==
    IF keep = {} THEN <<>>
    ELSE SubSeq(s, CHOOSE i \in keep : \A j \in keep : i <= j, CHOOSE i \in keep : \A j \in keep : j <= i)
RefTrim(s) == RefTrimTo(s, {i \in 1..Len(s) : s[i] \notin {" ", "\t", "\n", "\r"}})

\* comma separators and the currency symbols removed, then trimmed
RefCleaned(s) == RefTrim(SelectSeq(s, LAMBDA c : c \notin {",", "$", "EUR", "GBP"}))

RefNegative(c) == c /= <<>> /\ c[1] = "-"
RefUnsigned(c) == IF c /= <<>> /\ c[1] \in {"+", "-"} THEN Tail(c) ELSE c
RefAllDigits(u) == u /= <<>> /\ \A i \in 1..Len(u) : u[i] \in {"0", "1", "2", "3", "4", "5", "6", "7", "8", "9"}

RECURSIVE RefNat(_)
\* the number a digit string denotes
RefNat(u) == IF u = <<>> THEN 0 ELSE 10 * RefNat(SubSeq(u, 1, Len(u) - 1)) + DigitVal(u[Len(u)])

\* an integer literal: an optional sign, then digits
RefIsInt(c) == RefAllDigits(RefUnsigned(c))
RefInt(c) == IF RefNegative(c) THEN 0 - RefNat(RefUnsigned(c)) ELSE RefNat(RefUnsigned(c))

\* a decimal literal: an optional sign, digits with one point, at least one digit
RefPoints(u) == {i \in 1..Len(u) : u[i] = "."}
RefIsDecimal(c) ==
    /\ Cardinality(RefPoints(RefUnsigned(c))) = 1
    /\ RefAllDigits(SelectSeq(RefUnsigned(c), LAMBDA ch : ch /= "."))
\* its digits read as one integer, and the number of digits after the point
RefDecimalDigits(c) ==
    IF RefNegative(c) THEN 0 - RefNat(SelectSeq(RefUnsigned(c), LAMBDA ch : ch /= "."))
    ELSE RefNat(SelectSeq(RefUnsigned(c), LAMBDA ch : ch /= "."))
RefDecimalPlaces(c) == Len(RefUnsigned(c)) - (CHOOSE i \in RefPoints(RefUnsigned(c)) : TRUE)

\* x is the floating-point value n / 10^places
RefIsFloat(x, n, places) ==
    /\ x.t = "float"
    /\ "m" \in DOMAIN x
    /\ x.m * Pow10(places) = n * Pow10(x.d)

RefHasExponent(c) == \E i \in 1..Len(c) : c[i] \in {"e", "E"}

\* x is what the cleaned text c parses to: a float if c holds a decimal point,
\* an integer otherwise, 0 when the parse fails
RefParsed(c, x) ==
    IF \E i \in 1..Len(c) : c[i] = "."
    THEN IF RefIsDecimal(c) THEN RefIsFloat(x, RefDecimalDigits(c), RefDecimalPlaces(c))
         ELSE IF RefHasExponent(c) THEN x.t \in {"int", "float"}
         ELSE x = JInt(0)
    ELSE IF RefIsInt(c) THEN x = JInt(RefInt(c))
    ELSE x = JInt(0)

\* x is the coercion of the value v (a JSON boolean is a Python int)
RefCoerced(v, x) ==
    CASE v.t \in {"int", "float", "bool"} -> x = v
      [] v.t = "str" -> RefParsed(RefCleaned(v.s), x)
      [] OTHER -> x = JInt(0)

\* x is float(v), 0.0 where float raises ValueError or TypeError
RefAmount(v, x) ==
    CASE v.t = "int" -> x = JFloat(v.n, 0)
      [] v.t = "float" -> x = v
      [] v.t = "str" ->
            IF RefIsInt(RefTrim(v.s)) THEN RefIsFloat(x, RefInt(RefTrim(v.s)), 0)
            ELSE IF RefIsDecimal(RefTrim(v.s))
            THEN RefIsFloat(x, RefDecimalDigits(RefTrim(v.s)), RefDecimalPlaces(RefTrim(v.s)))
            ELSE x = JFloat(0, 0)
      [] OTHER -> x = JFloat(0, 0)

\* the value of the first of the keys that the row carries, else the default
RECURSIVE RefField(_, _, _)
RefField(row, keys, default) ==
    IF keys = <<>> THEN default
    ELSE IF Head(keys) \in DOMAIN row.f THEN row.f[Head(keys)]
    ELSE RefField(row, Tail(keys), default)

RawTotal(row) == RefField(row, <<"Total_Price_Text", "total_price">>, JInt(0))
RawQuantity(row) == RefField(row, <<"Quantity_Text", "qty", "quantity">>, JInt(0))
RawUnitPrice(row) == RefField(row, <<"Unit_Price_Label", "unit_price">>, JInt(0))

\* the payload is a JSON object with an "items" list
HasItemsList(content) ==
    /\ content.t = "dict"
    /\ "items" \in DOMAIN content.f
    /\ content.f["items"].t = "list"

AllMappings(rows) == \A i \in 1..Len(rows) : rows[i].t = "dict"

\* the function called on its own has returned or raised
Returned(f) == cmd = f /\ pc = "exit"

\* the produced item is built from the raw row, field by field
BuiltFrom(item, row) ==
    /\ row.t = "dict"
    /\ item.t = "dict"
    /\ IF cmd = "parse_json_response"
       THEN /\ RefCoerced(RawTotal(row), item.f["Total_Price_Text"])
            /\ RefCoerced(RawQuantity(row), item.f["Quantity_Text"])
            /\ RefCoerced(RawUnitPrice(row), item.f["Unit_Price_Label"])
       ELSE /\ DOMAIN item.f = DOMAIN row.f \cup {"_page", "_pdf"}
            /\ "amount" \in DOMAIN row.f => RefAmount(row.f["amount"], item.f["amount"])

\* the page number and the document name handed to the normaliser
PageArg == IF cmd = "parse_json_response" THEN arg.page_num ELSE arg.page_number

\* C12: for a payload that is a JSON object with an "items" list, the
\* normaliser returns as many items as the list has rows, item i built from
\* row i, each stamped with the page number and the document name it was given.
C12_OutputMatchesRows ==
    ((Returned("parse_json_response") \/ Returned("extract_amounts_from_text"))
            /\ HasItemsList(arg.content)) =>
        /\ ret.exc = "none"
        /\ Len(ret.val) = Len(RowsOf(arg.content))
        /\ \A i \in 1..Len(ret.val) :
               /\ BuiltFrom(ret.val[i], RowsOf(arg.content)[i])
               /\ ret.val[i].f["_page"] = JInt(PageArg)
               /\ ret.val[i].f["_pdf"] = JStr(arg.pdf_name)

\* C13: convert_to_number never raises and follows the rule: a number is
\* returned unchanged; a text has commas and the symbols $ EUR GBP removed and
\* is trimmed, then is parsed as a float if it holds a decimal point and as an
\* integer otherwise ("$1,234.50" gives 1234.50, "2,000" gives 2000); a parse
\* failure ("abc", "", "1.2.3") and any other shape (null, list, mapping) give 0.
C13_NumericCoercion ==
    Returned("convert_to_number") =>
        /\ ret.exc = "none"
        /\ ret.val.t \in {"int", "float", "bool"}
        /\ RefCoerced(arg.value, ret.val)
        /\ arg.value = JStr(<<"$", "1", ",", "2", "3", "4", ".", "5", "0">>) => ret.val = JFloat(12345, 1)
        /\ arg.value = JStr(<<"2", ",", "0", "0", "0">>) => ret.val = JInt(2000)
        /\ arg.value \in {JStr(<<"a", "b", "c">>), JStr(<<>>), JStr(<<"1", ".", "2", ".", "3">>)}
               => ret.val = JInt(0)
        /\ arg.value \in {JNull, JList(<<>>), JList(<<JInt(1)>>), JDict(<<>>)} => ret.val = JInt(0)

C13_Witness ==
    /\ Returned("convert_to_number")
    /\ arg.value = JStr(<<"$", "1", ",", "2", "3", "4", ".", "5", "0">>)
    /\ ret = Ok(JFloat(12345, 1))

\* the rows carry no total field
NoTotalField(row) == DOMAIN row.f \cap {"Total_Price_Text", "total_price", "amount"} = {}

\* the total field of a raw row, as the reply carries it ("absent" if it has none)
TotalFieldOf(row) ==
    IF cmd = "parse_json_response" THEN RawTotal(row)
    ELSE IF "amount" \in DOMAIN row.f THEN row.f["amount"] ELSE [t |-> "absent"]

\* the total of a produced item ("absent" if it has none)
TotalOf(item) ==
    IF cmd = "parse_json_response" THEN item.f["Total_Price_Text"]
    ELSE IF "amount" \in DOMAIN item.f THEN item.f["amount"] ELSE [t |-> "absent"]

\* the total of the item is the coercion of the row's own total field, the
\* default (0, or no amount at all) where the row has none
TotalIsRead(item, row) ==
    IF cmd = "parse_json_response"
    THEN /\ RefCoerced(RawTotal(row), TotalOf(item))
         /\ NoTotalField(row) => TotalOf(item) = JInt(0)
    ELSE /\ "amount" \in DOMAIN row.f => RefAmount(row.f["amount"], TotalOf(item))
         /\ NoTotalField(row) => "amount" \notin DOMAIN item.f

\* C14: the total of every produced item is the value of the raw row's own
\* total field (Total_Price_Text / total_price, or amount) after coercion only,
\* never quantity times unit price: rows that agree on the total field get the
\* same total whatever their quantity and unit price, and a row with no total
\* field gets the default, not the product.
C14_TotalIsReadNotComputed ==
    ((Returned("parse_json_response") \/ Returned("extract_amounts_from_text"))
            /\ HasItemsList(arg.content) /\ AllMappings(RowsOf(arg.content))) =>
        /\ ret.exc = "none"
        /\ Len(ret.val) = Len(RowsOf(arg.content))
        /\ \A i \in 1..Len(ret.val) : TotalIsRead(ret.val[i], RowsOf(arg.content)[i])
        /\ \A i, j \in 1..Len(ret.val) :
               TotalFieldOf(RowsOf(arg.content)[i]) = TotalFieldOf(RowsOf(arg.content)[j])
                   => TotalOf(ret.val[i]) = TotalOf(ret.val[j])

C14_Witness ==
    /\ Returned("parse_json_response")
    /\ arg.content = Items(<<JDict(("Total_Price_Text" :> JInt(30)) @@ ("Quantity_Text" :> JInt(2))
                                       @@ ("Unit_Price_Label" :> JInt(10))),
                             JDict(("quantity" :> JInt(3)) @@ ("unit_price" :> JInt(7)))>>)
    /\ ret.exc = "none"
    /\ TotalOf(ret.val[1]) = JInt(30)
    /\ TotalOf(ret.val[2]) = JInt(0)

RECURSIVE RefFirstList(_, _)
\* the value of the first of the keys that is present and bound to a list
RefFirstList(keys, d) ==
    IF keys = <<>> THEN <<>>
    ELSE IF Head(keys) \in DOMAIN d.f /\ d.f[Head(keys)].t = "list" THEN d.f[Head(keys)].xs
    ELSE RefFirstList(Tail(keys), d)

\* the row list of a parsed reply
RefLocated(content) ==
    CASE content.t = "list" -> content.xs
      [] content.t = "dict" ->
            RefFirstList(<<"items", "data", "line_items", "records", "invoice_items", "lines">>, content)
      [] OTHER -> <<>>

\* C15: parse_json_response takes as row list the parsed reply itself if it is
\* a list; for a mapping, the value of the first of "items", "data",
\* "line_items", "records", "invoice_items", "lines" that is present and bound
\* to a list (a key bound to a non-list is skipped); with no such key, or a
\* scalar reply, it returns zero rows and no error.
C15_RowListLocation ==
    (Returned("parse_json_response") /\ arg.content /= NotJson
            /\ AllMappings(RefLocated(arg.content))) =>
        /\ ret.exc = "none"
        /\ Len(ret.val) = Len(RefLocated(arg.content))
        /\ \A i \in 1..Len(ret.val) :
               /\ NameOf(ret.val[i]) = NameOf(RefLocated(arg.content)[i])
               /\ BuiltFrom(ret.val[i], RefLocated(arg.content)[i])

C15_Witness ==
    /\ Returned("parse_json_response")
    /\ arg.content = JDict(("items" :> JStr(<<"x">>)) @@ ("data" :> JList(<<DocRow(2)>>))
                             @@ ("lines" :> JList(<<DocRow(6)>>)))
    /\ ret.exc = "none"
    /\ Len(ret.val) = 1
    /\ NameOf(ret.val[1]) = Chars(2)

\* the source page an item carries
PageOf(item) == item.f["_page"].n

\* the failed pages are listed in increasing order, each a page of the
\* document, and none of the items comes from a listed page
FailedPagesConsistent(failed, items) ==
    /\ \A i, j \in 1..Len(failed) : i < j => FailedNumbers(failed)[i] < FailedNumbers(failed)[j]
    /\ \A i \in 1..Len(failed) : FailedNumbers(failed)[i] \in 1..num_pages
    /\ \A k \in 1..Len(items) : ~InFailed(PageOf(items[k]), failed)

\* C16: after any sequence of page successes and failures, failed_pages is
\* strictly increasing (no page twice, every entry between 1 and the page
\* count) and no item carries a source page that failed_pages lists.
C16_FailedPagesDisjointFromItems ==
    /\ FailedPagesConsistent(failed_pages, all_items)
    /\ ResultBuilt => FailedPagesConsistent(result.failed_pages, result.items)

C16_Witness ==
    /\ cmd = "document_extraction"
    /\ ResultBuilt
    /\ num_pages = 3
    /\ result.failed_pages = <<1, 3>>
    /\ Len(result.items) = 2
    /\ PageOf(result.items[1]) = 2

\* C17: in TEXT mode of document_extraction one inference call is made for
\* the whole document whatever its page count, every item is stamped
\* _page = 1, and failed_pages is empty: a TEXT-mode result reports no failed page.
C17_TextModeOneCall ==
    (cmd = "document_extraction" /\ mode = "text") =>
        /\ Len(calls) <= 1
        /\ \A i \in DOMAIN calls : calls[i].kind = "text" /\ calls[i].pages = 1..num_pages
        /\ pc = "call" => Len(calls) = 1 /\ outcomes = <<>>
        /\ failed_pages = <<>>
        /\ \A k \in 1..Len(all_items) : PageOf(all_items[k]) = 1
        /\ ResultBuilt =>
               /\ Len(calls) = 1
               /\ result.num_pages = num_pages
               /\ result.failed_pages = <<>>
               /\ \A k \in 1..Len(result.items) : PageOf(result.items[k]) = 1

C17_Witness ==
    /\ cmd = "document_extraction"
    /\ mode = "text"
    /\ ResultBuilt
    /\ num_pages = 3
    /\ Len(calls) = 1
    /\ Len(result.items) = 2
    /\ PageOf(result.items[2]) = 1
    /\ result.failed_pages = <<>>

====
